---- MODULE Spec2Model ----
(***************************************************************************)
(* Model of src/src/core/intelligence.py: analyze_contract, its nested     *)
(* _extract_json_from_text, _keyword_risk_score and _map_score_to_bucket.  *)
(*                                                                         *)
(* Text is a sequence of one-character strings.  Python indexes from 0,    *)
(* the model from 1; every index below is the Python index plus one.       *)
(* A Python value that json.loads can produce is a record tagged by its    *)
(* type in field t; None is the value JNull.                               *)
(***************************************************************************)
EXTENDS Integers, Sequences, FiniteSets, TLC

(***************************************************************************)
(* Python values                                                           *)
(***************************************************************************)
EmptyDict == [key \in {} |-> 0]

\* every value carries all payload fields, so that two values of different
\* Python types compare unequal instead of being incomparable; a dict is the
\* function o from its keys and the sequence k of its keys in insertion order
JNull == [t |-> "null", b |-> FALSE, n |-> 0, s |-> <<>>, a |-> <<>>,
          o |-> EmptyDict, k |-> <<>>]
JBool(x) == [JNull EXCEPT !.t = "bool", !.b = x]
JNum(x) == [JNull EXCEPT !.t = "num", !.n = x]
JStr(x) == [JNull EXCEPT !.t = "str", !.s = x]
JArr(x) == [JNull EXCEPT !.t = "arr", !.a = x]
JObj(f, keys) == [JNull EXCEPT !.t = "obj", !.o = f, !.k = keys]

\* d[key] = val on a dict: a repeated key keeps its place and the last value
DictPut(d, key, val) ==
    JObj([x \in (DOMAIN d.o) \cup {key} |-> IF x = key THEN val ELSE d.o[x]],
         IF key \in DOMAIN d.o THEN d.k ELSE Append(d.k, key))

\* d.get(key): None when the key is missing
DictGet(d, key) == IF key \in DOMAIN d.o THEN d.o[key] ELSE JNull

\* isinstance(x, dict), isinstance(x, str)
IsDict(x) == x.t = "obj"
IsStr(x) == x.t = "str"

\* Python truth value of a json.loads result
Truthy(x) ==
    CASE x.t = "null" -> FALSE
      [] x.t = "bool" -> x.b
      [] x.t = "num" -> x.n # 0
      [] x.t = "str" -> x.s # <<>>
      [] x.t = "arr" -> x.a # <<>>
      [] x.t = "obj" -> DOMAIN x.o # {}

(***************************************************************************)
(* str.lower() on the characters the inputs use                            *)
(***************************************************************************)
UpperCase == <<"A","B","C","D","E","F","G","H","I","J","K","L","M",
               "N","O","P","Q","R","S","T","U","V","W","X","Y","Z">>
LowerCase == <<"a","b","c","d","e","f","g","h","i","j","k","l","m",
               "n","o","p","q","r","s","t","u","v","w","x","y","z">>

LowerChar(c) ==
    IF \E k \in 1..26 : UpperCase[k] = c
    THEN LowerCase[CHOOSE k \in 1..26 : UpperCase[k] = c]
    ELSE c

Lower(s) == [p \in 1..Len(s) |-> LowerChar(s[p])]

\* the character at p, or a token no character equals past the end
At(s, p) == IF p \in 1..Len(s) THEN s[p] ELSE "EOF"

\* s.startswith(w, p - 1)
StartsAt(s, p, w) ==
    /\ p >= 1
    /\ p + Len(w) - 1 <= Len(s)
    /\ \A k \in 1..Len(w) : s[p + k - 1] = w[k]

\* w in s
Contains(s, w) == \E p \in 1..(Len(s) - Len(w) + 1) : StartsAt(s, p, w)

(***************************************************************************)
(* json.loads, for text over the characters the inputs use: objects,       *)
(* arrays, strings without escapes, integers, true, false, null, and the   *)
(* whitespace " " and "\n".  A parse step returns [ok, v, n]: whether it   *)
(* succeeded, the value, and the index after it.                           *)
(***************************************************************************)
Whitespace == {" ", "\n"}
Digits == <<"0","1","2","3","4","5","6","7","8","9">>
IsDigit(c) == \E k \in 1..10 : Digits[k] = c
DigitVal(c) == (CHOOSE k \in 1..10 : Digits[k] = c) - 1

ParseFail == [ok |-> FALSE, v |-> JNull, n |-> 0]
ParseOk(val, next) == [ok |-> TRUE, v |-> val, n |-> next]

RECURSIVE SkipWs(_, _)
SkipWs(s, p) == IF At(s, p) \in Whitespace THEN SkipWs(s, p + 1) ELSE p

\* index of the quote closing a string whose content starts at p, 0 if a
\* control character or the end of the text comes first
RECURSIVE StringEnd(_, _)
StringEnd(s, p) ==
    IF p > Len(s) \/ s[p] = "\n" THEN 0
    ELSE IF s[p] = "\"" THEN p
    ELSE StringEnd(s, p + 1)

ParseString(s, p) ==
    LET q == StringEnd(s, p + 1)
    IN IF q = 0 THEN ParseFail ELSE ParseOk(JStr(SubSeq(s, p + 1, q - 1)), q + 1)

RECURSIVE ParseDigits(_, _, _)
ParseDigits(s, p, acc) ==
    IF IsDigit(At(s, p)) THEN ParseDigits(s, p + 1, 10 * acc + DigitVal(s[p]))
    ELSE ParseOk(JNum(acc), p)

\* -?(0|[1-9][0-9]*)
ParseNumber(s, p) ==
    LET neg == At(s, p) = "-"
        q == IF neg THEN p + 1 ELSE p
        r == IF At(s, q) = "0" THEN ParseOk(JNum(0), q + 1)
             ELSE IF IsDigit(At(s, q)) THEN ParseDigits(s, q, 0)
             ELSE ParseFail
    IN IF r.ok /\ neg THEN ParseOk(JNum(0 - r.v.n), r.n) ELSE r

RECURSIVE ParseValue(_, _)
RECURSIVE ParseElements(_, _, _)
RECURSIVE ParseMembers(_, _, _)

\* the elements of an array from p, after "[" or ","
ParseElements(s, p, acc) ==
    LET e == ParseValue(s, p)
        q == SkipWs(s, e.n)
    IN IF ~e.ok THEN ParseFail
       ELSE IF At(s, q) = "," THEN ParseElements(s, SkipWs(s, q + 1), Append(acc, e.v))
       ELSE IF At(s, q) = "]" THEN ParseOk(JArr(Append(acc, e.v)), q + 1)
       ELSE ParseFail

\* the members of an object from p, after "{" or ","
ParseMembers(s, p, acc) ==
    LET key == ParseString(s, p)
        c == SkipWs(s, key.n)
        val == ParseValue(s, SkipWs(s, c + 1))
        q == SkipWs(s, val.n)
        d == DictPut(acc, key.v.s, val.v)
    IN IF At(s, p) # "\"" \/ ~key.ok THEN ParseFail
       ELSE IF At(s, c) # ":" THEN ParseFail
       ELSE IF ~val.ok THEN ParseFail
       ELSE IF At(s, q) = "," THEN ParseMembers(s, SkipWs(s, q + 1), d)
       ELSE IF At(s, q) = "}" THEN ParseOk(d, q + 1)
       ELSE ParseFail

ParseValue(s, p) ==
    LET c == At(s, p)
    IN IF c = "\"" THEN ParseString(s, p)
       ELSE IF c = "{" THEN
            (IF At(s, SkipWs(s, p + 1)) = "}"
             THEN ParseOk(JObj(EmptyDict, <<>>), SkipWs(s, p + 1) + 1)
             ELSE ParseMembers(s, SkipWs(s, p + 1), JObj(EmptyDict, <<>>)))
       ELSE IF c = "[" THEN
            (IF At(s, SkipWs(s, p + 1)) = "]"
             THEN ParseOk(JArr(<<>>), SkipWs(s, p + 1) + 1)
             ELSE ParseElements(s, SkipWs(s, p + 1), <<>>))
       ELSE IF StartsAt(s, p, <<"n","u","l","l">>) THEN ParseOk(JNull, p + 4)
       ELSE IF StartsAt(s, p, <<"t","r","u","e">>) THEN ParseOk(JBool(TRUE), p + 4)
       ELSE IF StartsAt(s, p, <<"f","a","l","s","e">>) THEN ParseOk(JBool(FALSE), p + 5)
       ELSE ParseNumber(s, p)

\* json.loads(s): [ok |-> FALSE] stands for the exception it raises
json_loads(s) ==
    LET r == ParseValue(s, SkipWs(s, 1))
    IN IF r.ok /\ SkipWs(s, r.n) = Len(s) + 1 THEN r ELSE ParseFail

(***************************************************************************)
(* Fence stripping in _extract_json_from_text.  A TLA+ string cannot hold  *)
(* the backtick, so the character ` is the token Tick.                     *)
(***************************************************************************)
Tick == "tick"
Fence == <<Tick, Tick, Tick>>

\* length of the match of ```(?:json)?\n at p under re.IGNORECASE, 0 if none:
\* the optional group is tried first, then skipped
FenceMatchLen(s, p) ==
    IF ~StartsAt(s, p, Fence) THEN 0
    ELSE IF StartsAt(Lower(s), p + 3, <<"j","s","o","n">>) /\ At(s, p + 7) = "\n" THEN 8
    ELSE IF At(s, p + 3) = "\n" THEN 4
    ELSE 0

\* re.sub(r"```(?:json)?\n", "", s, flags=re.IGNORECASE): leftmost matches,
\* left to right, none overlapping
RECURSIVE SubFences(_, _)
SubFences(s, p) ==
    IF p > Len(s) THEN <<>>
    ELSE IF FenceMatchLen(s, p) > 0 THEN SubFences(s, p + FenceMatchLen(s, p))
    ELSE <<s[p]>> \o SubFences(s, p + 1)

\* s.replace("```", "")
RECURSIVE ReplaceFence(_, _)
ReplaceFence(s, p) ==
    IF p > Len(s) THEN <<>>
    ELSE IF StartsAt(s, p, Fence) THEN ReplaceFence(s, p + 3)
    ELSE <<s[p]>> \o ReplaceFence(s, p + 1)

\* s_clean of _extract_json_from_text
StripFences(s) == ReplaceFence(SubFences(s, 1), 1)

\* a scan that stops looking after the first "{"
BracePositionsFirstOnly(s, p) ==
    IF \E q \in p..Len(s) : s[q] = "{"
    THEN <<CHOOSE q \in p..Len(s) : s[q] = "{" /\ \A r \in p..(q - 1) : s[r] # "{">>
    ELSE <<>>

\* start_idxs: the positions of "{" in ascending order
RECURSIVE BracePositions(_, _)
BracePositions(s, p) ==
    IF p > Len(s) THEN <<>>
    ELSE IF s[p] = "{" THEN <<p>> \o BracePositions(s, p + 1)
    ELSE BracePositions(s, p + 1)

(***************************************************************************)
(* _keyword_risk_score and _map_score_to_bucket                            *)
(***************************************************************************)
HighWords == << <<"p","e","n","a","l","t","y">>,
                <<"i","n","d","e","m","n","i","t","y">>,
                <<"u","n","i","l","a","t","e","r","a","l">>,
                <<"t","e","r","m","i","n","a","t","e"," ","w","i","t","h","o","u","t">>,
                <<"l","i","q","u","i","d","a","t","e","d"," ","d","a","m","a","g","e","s">> >>
MediumWords == << <<"a","u","t","o","-","r","e","n","e","w">>,
                  <<"r","e","n","e","w","a","l">>,
                  <<"n","o","t","i","c","e"," ","p","e","r","i","o","d">>,
                  <<"a","r","b","i","t","r","a","t","i","o","n">>,
                  <<"g","o","v","e","r","n","i","n","g"," ","l","a","w">> >>
LowWords == << <<"c","o","n","f","i","d","e","n","t","i","a","l">>,
               <<"n","d","a">>,
               <<"n","o","n","-","d","i","s","c","l","o","s","u","r","e">> >>

\* RISK_KEYWORDS.items(), in insertion order
RISK_KEYWORDS == << [level |-> "high", words |-> HighWords],
                    [level |-> "medium", words |-> MediumWords],
                    [level |-> "low", words |-> LowWords] >>

HighWeight == 30
MediumWeight == 15
LowWeight == 5
ScoreCap == 100

\* the number of places where w occurs in t
Occurrences(t, w) == Cardinality({p \in 1..Len(t) : StartsAt(t, p, w)})

\* a scorer that counts every occurrence of a keyword
KeywordWeightPerOccurrence(level, w, t) ==
    Occurrences(t, w) * (IF level = "high" THEN 30 ELSE IF level = "medium" THEN 15 ELSE 5)

\* the increment of one (level, word) iteration
KeywordWeight(level, w, t) ==
    IF Contains(t, w)
    THEN (IF level = "high" THEN HighWeight
          ELSE IF level = "medium" THEN MediumWeight
          ELSE LowWeight)
    ELSE 0

\* the inner loop over one level's words, from word k
RECURSIVE WordsLoop(_, _, _, _, _)
WordsLoop(level, words, k, t, score) ==
    IF k > Len(words) THEN score
    ELSE WordsLoop(level, words, k + 1, t, score + KeywordWeight(level, words[k], t))

\* the outer loop over the levels, from level k
RECURSIVE LevelsLoop(_, _, _)
LevelsLoop(k, t, score) ==
    IF k > Len(RISK_KEYWORDS) THEN score
    ELSE LevelsLoop(k + 1, t,
            WordsLoop(RISK_KEYWORDS[k].level, RISK_KEYWORDS[k].words, 1, t, score))

Min(a, b) == IF a <= b THEN a ELSE b
Max(a, b) == IF a >= b THEN a ELSE b

\* a scorer that forgets the cap
ScoreWithoutCap(text) == LevelsLoop(1, Lower(text), 0)

\* _keyword_risk_score(text), for text a str
_keyword_risk_score(text) == Min(ScoreCap, LevelsLoop(1, Lower(text), 0))

HighThreshold == 60
MediumThreshold == 30

\* thresholds compared with > instead of >=
BucketStrictThresholds(score) ==
    IF score > 60 THEN "High"
    ELSE IF score > 30 THEN "Medium"
    ELSE "Low"

_map_score_to_bucket(score) ==
    IF score >= HighThreshold THEN "High"
    ELSE IF score >= MediumThreshold THEN "Medium"
    ELSE "Low"

(***************************************************************************)
(* Bounds of the model                                                     *)
(***************************************************************************)
MaxClauses == 2
MaxPhrases == 2
BucketMargin == 20

(***************************************************************************)
(* Inputs.  The contract texts and the collaborator's answers are drawn    *)
(* from the sets below.                                                    *)
(***************************************************************************)
Quote(s) == <<"\"">> \o s \o <<"\"">>

\* the character c, n times
Repeat(c, n) == [p \in 1..n |-> c]

\* the texts of a set joined by sep, up to n of them in any order
RECURSIVE Joined(_, _, _)
Joined(parts, sep, n) ==
    IF n = 0 THEN {<<>>}
    ELSE Joined(parts, sep, n - 1)
         \cup parts
         \cup {a \o sep \o b : a \in Joined(parts, sep, n - 1) \ {<<>>}, b \in parts}

TxtPenalty ==
    <<"p","e","n","a","l","t","y">>

TxtTwoHigh ==
    <<"P","e","n","a","l","t","y",";"," ","I","N","D","E","M","N","I","T",
      "Y">>

TxtThreeHigh ==
    <<"l","i","q","u","i","d","a","t","e","d"," ","d","a","m","a","g","e",
      "s",","," ","u","n","i","l","a","t","e","r","a","l"," ","i","n","d",
      "e","m","n","i","t","y">>

TxtNda ==
    <<"N","D","A">>

TxtRenewal ==
    <<"a","u","t","o","-","r","e","n","e","w","a","l">>

TxtGoverning ==
    <<"g","o","v","e","r","n","i","n","g">>

TxtLaw ==
    <<"l","a","w">>

TxtPlain ==
    <<"t","e","r","m">>


Phrases == {TxtPenalty, TxtTwoHigh, TxtThreeHigh, TxtNda, TxtRenewal,
            TxtGoverning, TxtLaw, TxtPlain}

\* line 107: text[:1000]
TruncLen == 1000

\* contract texts: text[:1000] drops the keywords of TextLong, and TextCapped
\* holds more keywords than the cap lets count
TextPrefix ==
    <<"T","h","i","s"," ">>

TextLong == Repeat(" ", TruncLen - 4) \o TxtTwoHigh
TextCapped == TxtThreeHigh \o <<" ">> \o TxtTwoHigh
ContractTexts == {<<>>, TextPrefix \o TxtNda \o <<" ">> \o TxtPenalty, TextLong, TextCapped}

\* entries of a "clauses" list, as JSON text

EntFull ==
    <<"{","\"","t","i","t","l","e","\"",":","\"","T","\"",",","\"","t","e",
      "x","t","\"",":","\"","p","e","n","a","l","t","y","\"","}">>

EntNoTitle ==
    <<"{","\"","t","e","x","t","\"",":","\"","N","D","A","\"","}">>

EntNoText ==
    <<"{","\"","t","i","t","l","e","\"",":","\"","T","\"","}">>

EntNullText ==
    <<"{","\"","t","i","t","l","e","\"",":","\"","T","\"",",","\"","t","e",
      "x","t","\"",":","n","u","l","l","}">>

EntNumber ==
    <<"7">>

ClauseEntries ==
    {Quote(TxtPenalty), Quote(TxtTwoHigh), Quote(TxtNda),
     EntFull, EntNoTitle, EntNoText, EntNullText, EntNumber}

ClausesOpen ==
    <<"{","\"","c","l","a","u","s","e","s","\"",":","[">>

ClausesClose ==
    <<"]","}">>

FenceOpen ==
    <<Tick,Tick,Tick,"j","s","o","n","\n">>

FenceClose ==
    <<"\n",Tick,Tick,Tick>>


\* {"clauses":[e1,...,en]} for up to MaxClauses entries
ClauseListTexts ==
    {ClausesOpen \o l \o ClausesClose : l \in Joined(ClauseEntries, <<",">>, MaxClauses)}

\* JSON objects

ObjEmpty ==
    <<"{","}">>

ObjFlat ==
    <<"{","\"","a","\"",":","1","}">>

ObjCloseInString ==
    <<"{","\"","a","\"",":","\"","}","\"","}">>

ObjOpenInString ==
    <<"{","\"","a","\"",":","\"","{","\"","}">>

ObjBracesInString ==
    <<"{","\"","a","\"",":","\"","{","}","\"","}">>

ObjFenceInString ==
    <<"{","\"","a","\"",":","\"",Tick,Tick,Tick,"\"","}">>

ObjTicksInString ==
    <<"{","\"","a","\"",":","\"",Tick,Tick,"\"","}">>

ObjNested ==
    <<"{","\"","a","\"",":","{","\"","b","\"",":","1","}","}">>

ObjRepeatedKey ==
    <<"{","\"","a","\"",":","1",",","\"","a","\"",":","2","}">>

ObjSpaced ==
    <<"{"," ","\"","a","\""," ",":"," ","[","1",","," ","n","u","l","l","]",
      " ","}">>

ObjRawKey ==
    <<"{","\"","r","a","w","\"",":","\"","x","\"","}">>

ObjClausesString ==
    <<"{","\"","c","l","a","u","s","e","s","\"",":","\"","n","d","a","\"",
      "}">>

ObjClausesDict ==
    <<"{","\"","c","l","a","u","s","e","s","\"",":","{","\"","n","d","a",
      "\"",":","1",",","\"","b","\"",":","2","}","}">>

ObjClausesNumber ==
    <<"{","\"","c","l","a","u","s","e","s","\"",":","7","}">>

ObjClausesTrue ==
    <<"{","\"","c","l","a","u","s","e","s","\"",":","t","r","u","e","}">>

ObjClausesNull ==
    <<"{","\"","c","l","a","u","s","e","s","\"",":","n","u","l","l","}">>

ObjClausesOne ==
    <<"{","\"","c","l","a","u","s","e","s","\"",":","[","\"","p","e","n",
      "a","l","t","y","\"","]","}">>

ObjectTexts ==
    {ObjEmpty, ObjFlat, ObjCloseInString, ObjOpenInString, ObjBracesInString, ObjFenceInString,
     ObjTicksInString, ObjNested, ObjRepeatedKey, ObjSpaced, ObjRawKey, ObjClausesString,
     ObjClausesDict, ObjClausesNumber, ObjClausesTrue, ObjClausesNull, ObjClausesOne}

\* JSON values that are no object

ValArray ==
    <<"[","1",",","2","]">>

ValNumber ==
    <<"4","2">>

ValNull ==
    <<"n","u","l","l">>

ValString ==
    <<"\"","x","\"">>

ValTrue ==
    <<"t","r","u","e">>

ValArrayOfObject ==
    <<"[","{","\"","a","\"",":","1","}","]">>

NonObjectTexts == {ValArray, ValNumber, ValNull, ValString, ValTrue, ValArrayOfObject}

\* text that is no JSON

BadProse ==
    <<"s","o","r","r","y">>

BadOuterBraces ==
    <<"{","x"," ","{","\"","a","\"",":","1","}"," ","}">>

BadUnclosed ==
    <<"{","\"","a","\"",":","1">>

BadThenGood ==
    <<"{","a","}","{","\"","b","\"",":","2","}">>

BadReversed ==
    <<"}","{">>

BadExtraClose ==
    <<"{","\"","a","\"",":","1","}","}">>

BadTwoObjects ==
    <<"{","\"","a","\"",":","1","}"," ","{","\"","b","\"",":","2","}">>

NonJsonTexts == {<<>>, BadProse, BadOuterBraces, BadUnclosed, BadThenGood, BadReversed, BadExtraClose, BadTwoObjects}

\* what a model puts around its answer

PreProseFence ==
    <<"H","e","r","e",":","\n",Tick,Tick,Tick,"J","S","O","N","\n">>

PreBareFence ==
    <<Tick,Tick,Tick,"\n">>

PreProse ==
    <<"s","e","e"," ">>

SufProse ==
    <<" ","o","k">>

SufFenceProse ==
    <<"\n",Tick,Tick,Tick,"\n","d","o","n","e">>

Prefixes == {<<>>, FenceOpen, PreProseFence, PreBareFence, PreProse}
Suffixes == {<<>>, FenceClose, SufProse, SufFenceProse}

\* the answers of the collaborator
RawTexts ==
    {p \o b \o s : p \in Prefixes, b \in ObjectTexts \cup NonObjectTexts \cup NonJsonTexts,
                   s \in Suffixes}
    \cup ClauseListTexts

\* the answers paired with a contract text: the long text, costly to score, is
\* paired with one answer of each kind
LongTextAnswers ==
    {ObjFlat, ObjClausesNull, ObjClausesOne, ValArray, BadProse,
     FenceOpen \o ObjEmpty \o FenceClose,
     ClausesOpen \o ClausesClose}
AnswersFor(contract) == IF contract = TextLong THEN LongTextAnswers ELSE RawTexts

(***************************************************************************)
(* analyze_contract                                                        *)
(***************************************************************************)
VARIABLES
    pc,                 \* where analyze_contract stands
    text,               \* the argument text
    calls,              \* calls of llm.extract_contract_fields so far
    error,              \* the exception that left analyze_contract, or "none"
    assistant_content,
    s_clean,            \* _extract_json_from_text: the fence-stripped text
    start_idxs,
    si,                 \* position of the outer loop in start_idxs
    depth,
    i,                  \* position of the inner loop in s_clean
    salvaged,           \* [some, v]: the value returned by _extract_json_from_text
    parsed,
    items,              \* what "for c in parsed.get('clauses', [])" iterates over
    ci,                 \* position of that loop in items
    fallback,           \* whether the else branch built the clause
    clause_highlights,
    avg_score,
    composite,
    t_in, u_in,         \* scorer runs: the texts
    score_t, score_tt, score_tu,
    bucket_in, bucket_out

vars == <<pc, text, calls, error, assistant_content, s_clean, start_idxs, si,
          depth, i, salvaged, parsed, items, ci, fallback, clause_highlights,
          avg_score, composite, t_in, u_in, score_t, score_tt, score_tu,
          bucket_in, bucket_out>>

scanVars == <<s_clean, start_idxs, si, depth, i, salvaged>>
clauseVars == <<items, ci, fallback, clause_highlights>>
resultVars == <<avg_score, composite>>
pureVars == <<t_in, u_in, score_t, score_tt, score_tu, bucket_in, bucket_out>>

None == [some |-> FALSE, v |-> JNull]
Some(x) == [some |-> TRUE, v |-> x]

RawKey == <<"r","a","w">>
ClausesKey == <<"c","l","a","u","s","e","s">>
TitleKey == <<"t","i","t","l","e">>
TextKey == <<"t","e","x","t">>

\* {"raw": assistant_content}
RawWrapper(s) == DictPut(JObj(EmptyDict, <<>>), RawKey, JStr(s))

\* the state after the call of analyze_contract, before its first statement
Init ==
    /\ pc = "start"
    /\ text \in ContractTexts
    /\ calls = 0
    /\ error = "none"
    /\ assistant_content = <<>>
    /\ s_clean = <<>>
    /\ start_idxs = <<>>
    /\ si = 0
    /\ depth = 0
    /\ i = 0
    /\ salvaged = None
    /\ parsed = JNull
    /\ items = <<>>
    /\ ci = 0
    /\ fallback = FALSE
    /\ clause_highlights = <<>>
    /\ avg_score = 0
    /\ composite = "none"
    /\ t_in = <<>>
    /\ u_in = <<>>
    /\ score_t = 0
    /\ score_tt = 0
    /\ score_tu = 0
    /\ bucket_in = 0
    /\ bucket_out = "none"

\* line 50: the collaborator returns a string
CallLLM ==
    /\ pc = "start"
    /\ \E raw \in AnswersFor(text) : assistant_content' = raw
    /\ calls' = calls + 1
    /\ pc' = "parse"
    /\ UNCHANGED <<text, error, scanVars, parsed, clauseVars, resultVars, pureVars>>

\* a failure of the collaborator that is caught and answered with the wrapper
\* of an empty text
CallLLMFailsSwallowed ==
    /\ pc = "start"
    /\ calls' = calls + 1
    /\ error' = "RuntimeError"
    /\ salvaged' = None
    /\ pc' = "salvaged"
    /\ UNCHANGED <<text, assistant_content, s_clean, start_idxs, si, depth, i, parsed,
                   clauseVars, resultVars, pureVars>>

\* line 50: the collaborator raises, and nothing catches it
CallLLMFails ==
    /\ pc = "start"
    /\ calls' = calls + 1
    /\ error' = "RuntimeError"
    /\ pc' = "raised"
    /\ UNCHANGED <<text, assistant_content, scanVars, parsed, clauseVars, resultVars,
                   pureVars>>

\* lines 85-86: json.loads(assistant_content) returns
DirectParse ==
    /\ pc = "parse"
    /\ json_loads(assistant_content).ok
    /\ parsed' = json_loads(assistant_content).v
    /\ pc' = "clauses"
    /\ UNCHANGED <<text, calls, error, assistant_content, scanVars, clauseVars,
                   resultVars, pureVars>>

\* lines 87-89, 60-61: json.loads raises and the text to salvage is empty
SalvageEmpty ==
    /\ pc = "parse"
    /\ ~json_loads(assistant_content).ok
    /\ assistant_content = <<>>
    /\ salvaged' = None
    /\ pc' = "salvaged"
    /\ UNCHANGED <<text, calls, error, assistant_content, s_clean, start_idxs, si,
                   depth, i, parsed, clauseVars, resultVars, pureVars>>

\* lines 87-89, 63-68: json.loads raises; strip the fences, find the braces
SalvageStrip ==
    /\ pc = "parse"
    /\ ~json_loads(assistant_content).ok
    /\ assistant_content # <<>>
    /\ s_clean' = StripFences(assistant_content)
    /\ start_idxs' = BracePositions(StripFences(assistant_content), 1)
    /\ si' = 1
    /\ pc' = "scan_start"
    /\ UNCHANGED <<text, calls, error, assistant_content, depth, i, salvaged, parsed,
                   clauseVars, resultVars, pureVars>>

\* lines 69-71: the outer loop takes the next start
ScanNextStart ==
    /\ pc = "scan_start"
    /\ si <= Len(start_idxs)
    /\ depth' = 0
    /\ i' = start_idxs[si]
    /\ pc' = "scan_inner"
    /\ UNCHANGED <<text, calls, error, assistant_content, s_clean, start_idxs, si,
                   salvaged, parsed, clauseVars, resultVars, pureVars>>

\* lines 69, 82: no start is left
ScanExhausted ==
    /\ pc = "scan_start"
    /\ si > Len(start_idxs)
    /\ salvaged' = None
    /\ pc' = "salvaged"
    /\ UNCHANGED <<text, calls, error, assistant_content, s_clean, start_idxs, si,
                   depth, i, parsed, clauseVars, resultVars, pureVars>>

\* lines 72-73
ScanOpen ==
    /\ pc = "scan_inner"
    /\ At(s_clean, i) = "{"
    /\ depth' = depth + 1
    /\ i' = i + 1
    /\ UNCHANGED <<pc, text, calls, error, assistant_content, s_clean, start_idxs, si,
                   salvaged, parsed, clauseVars, resultVars, pureVars>>

\* lines 74-76: a closing brace that leaves the depth above zero
ScanClose ==
    /\ pc = "scan_inner"
    /\ At(s_clean, i) = "}"
    /\ depth - 1 # 0
    /\ depth' = depth - 1
    /\ i' = i + 1
    /\ UNCHANGED <<pc, text, calls, error, assistant_content, s_clean, start_idxs, si,
                   salvaged, parsed, clauseVars, resultVars, pureVars>>

\* a candidate that leaves out the closing brace
CandidateWithoutClose == SubSeq(s_clean, start_idxs[si], i - 1)

\* s_clean[start : i + 1]
Candidate == SubSeq(s_clean, start_idxs[si], i)

\* lines 74-79: the depth is back at zero and the candidate parses
ScanCandidateParses ==
    /\ pc = "scan_inner"
    /\ At(s_clean, i) = "}"
    /\ depth - 1 = 0
    /\ json_loads(Candidate).ok
    /\ depth' = depth - 1
    /\ salvaged' = Some(json_loads(Candidate).v)
    /\ pc' = "salvaged"
    /\ UNCHANGED <<text, calls, error, assistant_content, s_clean, start_idxs, si, i,
                   parsed, clauseVars, resultVars, pureVars>>

\* lines 74-81: the candidate does not parse; break to the next start
ScanCandidateFails ==
    /\ pc = "scan_inner"
    /\ At(s_clean, i) = "}"
    /\ depth - 1 = 0
    /\ ~json_loads(Candidate).ok
    /\ depth' = depth - 1
    /\ si' = si + 1
    /\ pc' = "scan_start"
    /\ UNCHANGED <<text, calls, error, assistant_content, s_clean, start_idxs, i,
                   salvaged, parsed, clauseVars, resultVars, pureVars>>

\* line 71: any other character
ScanOther ==
    /\ pc = "scan_inner"
    /\ i <= Len(s_clean)
    /\ s_clean[i] \notin {"{", "}"}
    /\ i' = i + 1
    /\ UNCHANGED <<pc, text, calls, error, assistant_content, s_clean, start_idxs, si,
                   depth, salvaged, parsed, clauseVars, resultVars, pureVars>>

\* line 71: the inner loop reaches the end of the text
ScanRunsOut ==
    /\ pc = "scan_inner"
    /\ i > Len(s_clean)
    /\ si' = si + 1
    /\ pc' = "scan_start"
    /\ UNCHANGED <<text, calls, error, assistant_content, s_clean, start_idxs, depth,
                   i, salvaged, parsed, clauseVars, resultVars, pureVars>>

\* lines 90-91
UseSalvaged ==
    /\ pc = "salvaged"
    /\ salvaged.some
    /\ parsed' = salvaged.v
    /\ pc' = "clauses"
    /\ UNCHANGED <<text, calls, error, assistant_content, scanVars, clauseVars,
                   resultVars, pureVars>>

\* lines 92-94
WrapRaw ==
    /\ pc = "salvaged"
    /\ ~salvaged.some
    /\ parsed' = RawWrapper(assistant_content)
    /\ pc' = "clauses"
    /\ UNCHANGED <<text, calls, error, assistant_content, scanVars, clauseVars,
                   resultVars, pureVars>>

\* the values a for loop over x takes: the entries of a list, the characters
\* of a str, the keys of a dict
Iterable(x) == x.t \in {"arr", "str", "obj"}

\* a loop that takes the entries of a list last to first
IterItemsReversed(x) ==
    CASE x.t = "arr" -> [p \in 1..Len(x.a) |-> x.a[Len(x.a) + 1 - p]]
      [] x.t = "str" -> [p \in 1..Len(x.s) |-> JStr(<<x.s[p]>>)]
      [] x.t = "obj" -> [p \in 1..Len(x.k) |-> JStr(x.k[p])]

IterItems(x) ==
    CASE x.t = "arr" -> x.a
      [] x.t = "str" -> [p \in 1..Len(x.s) |-> JStr(<<x.s[p]>>)]
      [] x.t = "obj" -> [p \in 1..Len(x.k) |-> JStr(x.k[p])]

\* line 98: isinstance(parsed, dict) and parsed.get("clauses")
HasClauses(x) == IsDict(x) /\ Truthy(DictGet(x, ClausesKey))

\* line 100
ClauseTitle(c) == IF IsDict(c) THEN DictGet(c, TitleKey) ELSE JNull

\* line 101
ClauseBody(c) ==
    IF IsDict(c) THEN DictGet(c, TextKey)
    ELSE IF IsStr(c) THEN c
    ELSE JStr(<<>>)

\* the dict appended to clause_highlights for a title and a str body
Highlight(title, body, scored) ==
    LET s == _keyword_risk_score(scored)
    IN [title |-> title, text |-> body, score |-> s, bucket |-> _map_score_to_bucket(s)]

\* lines 98-99: "clauses" is truthy and can be iterated
BeginClauses ==
    /\ pc = "clauses"
    /\ HasClauses(parsed)
    /\ Iterable(DictGet(parsed, ClausesKey))
    /\ items' = IterItems(DictGet(parsed, ClausesKey))
    /\ ci' = 1
    /\ pc' = "loop"
    /\ UNCHANGED <<text, calls, error, assistant_content, scanVars, parsed, fallback,
                   clause_highlights, resultVars, pureVars>>

\* lines 98-99: "clauses" is a number or True, and the for statement raises
ClausesNotIterable ==
    /\ pc = "clauses"
    /\ HasClauses(parsed)
    /\ ~Iterable(DictGet(parsed, ClausesKey))
    /\ error' = "TypeError"
    /\ pc' = "raised"
    /\ UNCHANGED <<text, calls, assistant_content, scanVars, parsed, clauseVars,
                   resultVars, pureVars>>

\* text[:1000]
Truncated(s) == SubSeq(s, 1, Min(Len(s), TruncLen))

\* a fallback clause scored on the text it displays
FallbackHighlightScoresBody(contract) ==
    Highlight(JNull, JStr(Truncated(contract)), Truncated(contract))

\* lines 106-107: the clause of the else branch
FallbackHighlight(contract) == Highlight(JNull, JStr(Truncated(contract)), contract)

\* lines 104-107
Fallback ==
    /\ pc = "clauses"
    /\ ~HasClauses(parsed)
    /\ clause_highlights' = Append(clause_highlights, FallbackHighlight(text))
    /\ fallback' = TRUE
    /\ pc' = "aggregate"
    /\ UNCHANGED <<text, calls, error, assistant_content, scanVars, parsed, items, ci,
                   resultVars, pureVars>>

\* lines 99-103: one entry whose body is a str
ClauseScored ==
    /\ pc = "loop"
    /\ ci <= Len(items)
    /\ IsStr(ClauseBody(items[ci]))
    /\ clause_highlights' =
           Append(clause_highlights,
                  Highlight(ClauseTitle(items[ci]), ClauseBody(items[ci]),
                            ClauseBody(items[ci]).s))
    /\ ci' = ci + 1
    /\ UNCHANGED <<pc, text, calls, error, assistant_content, scanVars, parsed, items,
                   fallback, resultVars, pureVars>>

\* lines 101-102, 22: the body is no str, and body.lower() raises
ClauseBodyNotStr ==
    /\ pc = "loop"
    /\ ci <= Len(items)
    /\ ~IsStr(ClauseBody(items[ci]))
    /\ error' = "AttributeError"
    /\ pc' = "raised"
    /\ UNCHANGED <<text, calls, assistant_content, scanVars, parsed, clauseVars,
                   resultVars, pureVars>>

\* line 99: the loop ends
LoopDone ==
    /\ pc = "loop"
    /\ ci > Len(items)
    /\ pc' = "aggregate"
    /\ UNCHANGED <<text, calls, error, assistant_content, scanVars, parsed, clauseVars,
                   resultVars, pureVars>>

RECURSIVE SumScores(_, _)
SumScores(hs, k) == IF k > Len(hs) THEN 0 ELSE hs[k].score + SumScores(hs, k + 1)

\* int(a / b) for b > 0: the quotient rounded toward zero
IntQuotient(a, b) == IF a >= 0 THEN a \div b ELSE 0 - ((0 - a) \div b)

\* a mean rounded up
AverageScoreRoundedUp(hs) ==
    (SumScores(hs, 1) + Max(1, Len(hs)) - 1) \div Max(1, Len(hs))

\* line 110
AverageScore(hs) == IntQuotient(SumScores(hs, 1), Max(1, Len(hs)))

\* lines 110-119
Aggregate ==
    /\ pc = "aggregate"
    /\ avg_score' = AverageScore(clause_highlights)
    /\ composite' = _map_score_to_bucket(AverageScore(clause_highlights))
    /\ pc' = "done"
    /\ UNCHANGED <<text, calls, error, assistant_content, scanVars, parsed, clauseVars,
                   pureVars>>

Next ==
    \/ CallLLM
    \/ CallLLMFails
    \/ DirectParse
    \/ SalvageEmpty
    \/ SalvageStrip
    \/ ScanNextStart
    \/ ScanExhausted
    \/ ScanOpen
    \/ ScanClose
    \/ ScanCandidateParses
    \/ ScanCandidateFails
    \/ ScanOther
    \/ ScanRunsOut
    \/ UseSalvaged
    \/ WrapRaw
    \/ BeginClauses
    \/ ClausesNotIterable
    \/ Fallback
    \/ ClauseScored
    \/ ClauseBodyNotStr
    \/ LoopDone
    \/ Aggregate

Spec == Init /\ [][Next]_vars

(***************************************************************************)
(* _keyword_risk_score on its own: on t, on t + " " + t and on t + u       *)
(***************************************************************************)
ScoreTexts == Joined(Phrases, <<" ">>, MaxPhrases)
AppendTexts == {<<>>} \cup Phrases \cup {<<" ">> \o p : p \in Phrases}

analysisVars == <<text, calls, error, assistant_content, scanVars, parsed,
                  clauseVars, resultVars>>

ScoreInit ==
    /\ pc = "score"
    /\ text = <<>>
    /\ calls = 0
    /\ error = "none"
    /\ assistant_content = <<>>
    /\ s_clean = <<>>
    /\ start_idxs = <<>>
    /\ si = 0
    /\ depth = 0
    /\ i = 0
    /\ salvaged = None
    /\ parsed = JNull
    /\ items = <<>>
    /\ ci = 0
    /\ fallback = FALSE
    /\ clause_highlights = <<>>
    /\ avg_score = 0
    /\ composite = "none"
    /\ t_in \in ScoreTexts
    /\ u_in = <<>>
    /\ score_t = 0
    /\ score_tt = 0
    /\ score_tu = 0
    /\ bucket_in = 0
    /\ bucket_out = "none"

ScoreText ==
    /\ pc = "score"
    /\ score_t' = _keyword_risk_score(t_in)
    /\ pc' = "score_repeated"
    /\ UNCHANGED <<analysisVars, t_in, u_in, score_tt, score_tu, bucket_in, bucket_out>>

ScoreRepeated ==
    /\ pc = "score_repeated"
    /\ score_tt' = _keyword_risk_score(t_in \o <<" ">> \o t_in)
    /\ pc' = "score_appended"
    /\ UNCHANGED <<analysisVars, t_in, u_in, score_t, score_tu, bucket_in, bucket_out>>

ScoreAppended ==
    /\ pc = "score_appended"
    /\ \E u \in AppendTexts :
           /\ u_in' = u
           /\ score_tu' = _keyword_risk_score(t_in \o u)
    /\ pc' = "scored"
    /\ UNCHANGED <<analysisVars, t_in, score_t, score_tt, bucket_in, bucket_out>>

NextScore ==
    \/ ScoreText
    \/ ScoreRepeated
    \/ ScoreAppended

SpecScore == ScoreInit /\ [][NextScore]_vars

(***************************************************************************)
(* _map_score_to_bucket on its own, on integers around 0..100              *)
(***************************************************************************)
BucketInit ==
    /\ pc = "bucket"
    /\ text = <<>>
    /\ calls = 0
    /\ error = "none"
    /\ assistant_content = <<>>
    /\ s_clean = <<>>
    /\ start_idxs = <<>>
    /\ si = 0
    /\ depth = 0
    /\ i = 0
    /\ salvaged = None
    /\ parsed = JNull
    /\ items = <<>>
    /\ ci = 0
    /\ fallback = FALSE
    /\ clause_highlights = <<>>
    /\ avg_score = 0
    /\ composite = "none"
    /\ t_in = <<>>
    /\ u_in = <<>>
    /\ score_t = 0
    /\ score_tt = 0
    /\ score_tu = 0
    /\ bucket_in \in (0 - BucketMargin)..(ScoreCap + BucketMargin)
    /\ bucket_out = "none"

MapBucket ==
    /\ pc = "bucket"
    /\ bucket_out' = _map_score_to_bucket(bucket_in)
    /\ pc' = "bucketed"
    /\ UNCHANGED <<analysisVars, t_in, u_in, score_t, score_tt, score_tu, bucket_in>>

NextBucket == MapBucket

SpecBucket == BucketInit /\ [][NextBucket]_vars

(***************************************************************************)
(* Properties.  The operators below restate the behaviour the properties   *)
(* compare the program with; they use no step of the program.              *)
(***************************************************************************)
Chars(s) == {s[p] : p \in 1..Len(s)}
Returned == pc = "done"
DirectFails == ~json_loads(assistant_content).ok

\* b[q] is the number of "{" minus the number of "}" in s[1..q]
RECURSIVE Balance(_, _, _)
Balance(s, q, d) ==
    IF q > Len(s) THEN <<>>
    ELSE LET e == d + (IF s[q] = "{" THEN 1 ELSE IF s[q] = "}" THEN 0 - 1 ELSE 0)
         IN <<e>> \o Balance(s, q + 1, e)

\* the first position from p where the braces of s[p..q] balance, 0 if none
ClosingOf(s, p) ==
    LET b == Balance(s, 1, 0)
        before == IF p = 1 THEN 0 ELSE b[p - 1]
        Q == {q \in p..Len(s) : b[q] = before}
    IN IF Q = {} THEN 0 ELSE CHOOSE q \in Q : \A r \in Q : q <= r

\* the starts "{" whose one candidate parses
ParsingStarts(s) ==
    {p \in 1..Len(s) : /\ s[p] = "{"
                       /\ ClosingOf(s, p) # 0
                       /\ json_loads(SubSeq(s, p, ClosingOf(s, p))).ok}

\* the parse of the candidate of the leftmost start whose candidate parses
FirstParsingCandidate(s) ==
    LET W == ParsingStarts(s)
        p == CHOOSE x \in W : \A y \in W : x <= y
    IN IF W = {} THEN None ELSE Some(json_loads(SubSeq(s, p, ClosingOf(s, p))).v)

\* s is one balanced {...} that parses, with no brace before or after it
OneObjectInProse(s) ==
    LET B == {p \in 1..Len(s) : s[p] \in {"{", "}"}}
        first == CHOOSE x \in B : \A y \in B : x <= y
        last == CHOOSE x \in B : \A y \in B : x >= y
    IN /\ B # {}
       /\ s[first] = "{"
       /\ ClosingOf(s, first) = last
       /\ json_loads(SubSeq(s, first, last)).ok

OnlyObject(s) ==
    LET B == {p \in 1..Len(s) : s[p] \in {"{", "}"}}
    IN SubSeq(s, CHOOSE x \in B : \A y \in B : x <= y, CHOOSE x \in B : \A y \in B : x >= y)

\* the thresholds of the bucket, as the specification states them
BucketOf(x) == IF x >= 60 THEN "High" ELSE IF x >= 30 THEN "Medium" ELSE "Low"

\* the keywords of a tier that occur in the lower-cased text
Present(words, s) ==
    LET low == Lower(s)
    IN {words[k] : k \in {j \in 1..Len(words) : Contains(low, words[j])}}
PresentKeywords(s) == Present(HighWords, s) \cup Present(MediumWords, s) \cup Present(LowWords, s)

\* min(100, 30 h + 15 m + 5 l)
PresenceScore(s) ==
    Min(100, 30 * Cardinality(Present(HighWords, s))
             + 15 * Cardinality(Present(MediumWords, s))
             + 5 * Cardinality(Present(LowWords, s)))

Scores == [k \in 1..Len(clause_highlights) |-> clause_highlights[k].score]

\* C1: the parsed field of every returned result is a mapping, whatever text
\* the collaborator returned, valid JSON of a non-object value included.
C1_ParsedIsMapping == Returned => IsDict(parsed)

\* C2: when the collaborator's text holds no "{", and more generally when the
\* direct parse fails and no brace-scan candidate parses, parsed is the
\* wrapper {"raw": rawText} with the original text.
C2_NoCandidateGivesWrapper ==
    (/\ Returned
     /\ \/ "{" \notin Chars(assistant_content)
        \/ DirectFails /\ ~FirstParsingCandidate(StripFences(assistant_content)).some)
    => parsed = RawWrapper(assistant_content)

\* the text between "```json\n" and "\n```"
IsFenced(s) ==
    /\ Len(s) >= Len(FenceOpen) + Len(FenceClose)
    /\ StartsAt(s, 1, FenceOpen)
    /\ StartsAt(s, Len(s) - Len(FenceClose) + 1, FenceClose)
FencedInner(s) == SubSeq(s, Len(FenceOpen) + 1, Len(s) - Len(FenceClose))
IsObjectText(m) == json_loads(m).ok /\ IsDict(json_loads(m).v)

\* m holds no ``` and its braces, counted from its first "{", first balance at
\* its final "}"
ScanSafe(m) ==
    LET B == {p \in 1..Len(m) : m[p] = "{"}
        first == CHOOSE x \in B : \A y \in B : x <= y
    IN /\ ~Contains(m, Fence)
       /\ B # {}
       /\ ClosingOf(m, first) # 0
       /\ SkipWs(m, ClosingOf(m, first) + 1) = Len(m) + 1

\* C3 as stated: for every valid JSON object text m, braces or backticks in
\* its string values included, recovering "```json\n" + m + "\n```" gives the
\* direct parse of m.
C3_FenceTransparentForEveryObject ==
    (Returned /\ IsFenced(assistant_content) /\ IsObjectText(FencedInner(assistant_content)))
    => parsed = json_loads(FencedInner(assistant_content)).v

\* C3 amended: for every valid JSON object text m that holds no triple backtick
\* and whose braces, counted from its first "{" with those inside strings
\* counted like any other, first balance at its final "}", recovering
\* "```json\n" + m + "\n```" gives the direct parse of m.
C3_FenceTransparentForScanSafeObject ==
    (/\ Returned
     /\ IsFenced(assistant_content)
     /\ IsObjectText(FencedInner(assistant_content))
     /\ ScanSafe(FencedInner(assistant_content)))
    => parsed = json_loads(FencedInner(assistant_content)).v

C3_Witness ==
    /\ Returned
    /\ assistant_content = FenceOpen \o ObjBracesInString \o FenceClose
    /\ ScanSafe(ObjBracesInString)
    /\ parsed = json_loads(ObjBracesInString).v

\* C4: when the direct parse fails, the scan returns the parse of the candidate
\* of the leftmost "{" of the fence-stripped text whose candidate parses, a
\* start's one candidate ending where the brace depth first returns to zero,
\* and nothing if there is none; so one valid balanced {...} in brace-free
\* prose is recovered as its own parse.
C4_ScanReturnsFirstParsingCandidate ==
    /\ pc = "salvaged" =>
           salvaged = FirstParsingCandidate(StripFences(assistant_content))
    /\ (Returned /\ DirectFails) =>
           LET e == FirstParsingCandidate(StripFences(assistant_content))
           IN parsed = (IF e.some THEN e.v ELSE RawWrapper(assistant_content))
    /\ (Returned /\ DirectFails /\ OneObjectInProse(StripFences(assistant_content))) =>
           parsed = json_loads(OnlyObject(StripFences(assistant_content))).v

\* a start failed, and the start that won lies inside the failed candidate
C4_Witness ==
    /\ pc = "salvaged"
    /\ salvaged.some
    /\ si > 1
    /\ ClosingOf(s_clean, start_idxs[1]) > start_idxs[si]

\* parsed has no "clauses" key or an empty "clauses" value
NoClauses(x) ==
    \/ ~IsDict(x)
    \/ ClausesKey \notin DOMAIN x.o
    \/ x.o[ClausesKey] \in {JArr(<<>>), JStr(<<>>), JObj(EmptyDict, <<>>)}

\* C5: with no "clauses" key, an empty "clauses" value or the raw wrapper, the
\* result has exactly one clause, without title, whose body is the first 1000
\* characters of the contract text and whose score is the score of the whole
\* contract text; every returned result has at least one clause.
C5_FallbackClause ==
    /\ (Returned /\ NoClauses(parsed)) =>
           /\ Len(clause_highlights) = 1
           /\ clause_highlights[1].title = JNull
           /\ clause_highlights[1].text = JStr(SubSeq(text, 1, Min(1000, Len(text))))
           /\ clause_highlights[1].score = PresenceScore(text)
    /\ Returned => Len(clause_highlights) >= 1

\* the contract text is longer than 1000 characters and its keywords lie
\* beyond them
C5_Witness ==
    /\ Returned
    /\ parsed = RawWrapper(assistant_content)
    /\ Len(text) > 1000
    /\ clause_highlights[1].score = 60
    /\ PresenceScore(clause_highlights[1].text.s) = 0

\* a "clauses" list of mappings and strings, each mapping without "text" or
\* with a string "text"
ClausesOfClaimedShape(x) ==
    /\ IsDict(x)
    /\ ClausesKey \in DOMAIN x.o
    /\ x.o[ClausesKey].t = "arr"
    /\ x.o[ClausesKey].a # <<>>
    /\ \A k \in 1..Len(x.o[ClausesKey].a) :
           LET c == x.o[ClausesKey].a[k]
           IN \/ IsStr(c)
              \/ IsDict(c) /\ (TextKey \in DOMAIN c.o => IsStr(c.o[TextKey]))

\* C6: a "clauses" entry that is a mapping without "text" is scored as the
\* empty string (score 0, bucket Low), a string entry is its own body, and
\* analyze returns a result for every such list.
C6_MalformedEntriesTolerated ==
    (calls = 1 /\ ClausesOfClaimedShape(parsed) /\ pc \in {"loop", "aggregate", "raised", "done"})
    => /\ pc # "raised"
       /\ \A k \in 1..Len(clause_highlights) :
              LET c == parsed.o[ClausesKey].a[k]
                  body == IF IsStr(c) THEN c.s
                          ELSE IF TextKey \in DOMAIN c.o THEN c.o[TextKey].s
                          ELSE <<>>
              IN /\ clause_highlights[k].text = JStr(body)
                 /\ clause_highlights[k].score = PresenceScore(body)
                 /\ clause_highlights[k].bucket = BucketOf(PresenceScore(body))

C8_ScoreMonotoneAndBounded ==
    /\ pc \in {"score_repeated", "score_appended", "scored"} => score_t \in 0..100
    /\ pc \in {"score_appended", "scored"} => score_tt \in 0..100
    /\ pc = "scored" => score_tu \in 0..100 /\ score_tu >= score_t

\* appending brings a new keyword and the cap cuts the sum
C8_Witness ==
    /\ pc = "scored"
    /\ score_t = 90
    /\ score_tu = 100
    /\ PresentKeywords(t_in \o u_in) # PresentKeywords(t_in)

\* C9: the bucket is High exactly for scores >= 60, Medium exactly for scores
\* from 30 to 59, Low exactly for scores < 30; 29 is Low, 30 and 59 are
\* Medium, 60 is High.
C9_BucketThresholds ==
    pc = "bucketed" =>
        /\ bucket_out \in {"Low", "Medium", "High"}
        /\ bucket_out = "High" <=> bucket_in >= 60
        /\ bucket_out = "Medium" <=> (30 <= bucket_in /\ bucket_in < 60)
        /\ bucket_out = "Low" <=> bucket_in < 30
        /\ bucket_in = 29 => bucket_out = "Low"
        /\ bucket_in = 30 => bucket_out = "Medium"
        /\ bucket_in = 59 => bucket_out = "Medium"
        /\ bucket_in = 60 => bucket_out = "High"

C9_Witness == pc = "bucketed" /\ bucket_in = 30 /\ bucket_out = "Medium"

\* C10: the composite score is the floor of the mean of the clause scores, so
\* it lies in 0..100 and between the least and the greatest clause score, and
\* the composite bucket is the bucket of the composite score; the scores
\* 30, 60 give 45, Medium.
C10_CompositeIsFloorOfMean ==
    Returned =>
        LET n == Len(clause_highlights)
            total == SumScores(clause_highlights, 1)
        IN /\ n >= 1
           /\ avg_score * n <= total
           /\ total < (avg_score + 1) * n
           /\ avg_score \in 0..100
           /\ \E k \in 1..n : Scores[k] <= avg_score
           /\ \E k \in 1..n : Scores[k] >= avg_score
           /\ composite = BucketOf(avg_score)
           /\ Scores = <<30, 60>> => avg_score = 45 /\ composite = "Medium"

C10_Witness == Returned /\ Scores = <<30, 60>> /\ avg_score = 45 /\ composite = "Medium"

\* nothing of the recovery, the scoring or the result has been written
NothingComputed ==
    /\ assistant_content = <<>>
    /\ s_clean = <<>>
    /\ start_idxs = <<>>
    /\ salvaged = None
    /\ parsed = JNull
    /\ items = <<>>
    /\ clause_highlights = <<>>
    /\ ~fallback
    /\ avg_score = 0
    /\ composite = "none"

\* C11: the collaborator is called exactly once, before any recovery or
\* scoring; when that call fails the failure leaves analyze_contract as it
\* is, the collaborator is not called again, and no result, partial or
\* fallback, is returned.
C11_CollaboratorCalledOnceFailurePropagates ==
    /\ calls \in {0, 1}
    /\ calls = 0 <=> pc = "start"
    /\ calls = 0 => NothingComputed
    /\ Returned => calls = 1 /\ error = "none"
    /\ error = "RuntimeError" =>
           /\ pc = "raised"
           /\ calls = 1
           /\ NothingComputed
           /\ ~ENABLED Next

C11_Witness == pc = "raised" /\ error = "RuntimeError" /\ calls = 1


\* the title and the body the i-th entry of a "clauses" list gives
EntryTitle(c) == IF IsDict(c) /\ TitleKey \in DOMAIN c.o THEN c.o[TitleKey] ELSE JNull
EntryBody(c) ==
    IF IsDict(c) THEN (IF TextKey \in DOMAIN c.o THEN c.o[TextKey] ELSE JNull)
    ELSE IF IsStr(c) THEN c
    ELSE JStr(<<>>)

\* parsed is a mapping whose "clauses" value is a non-empty list
HasClauseList(x) ==
    /\ IsDict(x)
    /\ ClausesKey \in DOMAIN x.o
    /\ x.o[ClausesKey].t = "arr"
    /\ x.o[ClausesKey].a # <<>>

\* C12: for a mapping whose "clauses" value is a non-empty list of n entries,
\* the result has exactly n clauses, the i-th built from the i-th entry, each
\* with the score of its body and the bucket of its score; no clause of any
\* result carries a bucket other than the bucket of its score.
C12_OneResultPerClauseInOrder ==
    /\ (pc \in {"loop", "aggregate", "done"} /\ HasClauseList(parsed)) =>
           /\ Len(clause_highlights) <= Len(parsed.o[ClausesKey].a)
           /\ \A k \in 1..Len(clause_highlights) :
                  LET c == parsed.o[ClausesKey].a[k]
                  IN /\ clause_highlights[k].title = EntryTitle(c)
                     /\ clause_highlights[k].text = EntryBody(c)
                     /\ IsStr(EntryBody(c))
                     /\ clause_highlights[k].score = PresenceScore(EntryBody(c).s)
    /\ (Returned /\ HasClauseList(parsed)) =>
           Len(clause_highlights) = Len(parsed.o[ClausesKey].a)
    /\ \A k \in 1..Len(clause_highlights) :
           clause_highlights[k].bucket = BucketOf(clause_highlights[k].score)

\* two entries of different kinds, titles and scores
C12_Witness ==
    /\ Returned
    /\ HasClauseList(parsed)
    /\ Len(clause_highlights) = 2
    /\ clause_highlights[1].title # JNull
    /\ clause_highlights[2].title = JNull
    /\ clause_highlights[1].score = 30
    /\ clause_highlights[2].score = 5

====
